---- MODULE Spec2Model ----
(***************************************************************************)
(* ChiantiPy/spectrum/spectrum.py: the synthesis engines `spectrum` and    *)
(* `bunch`.  One engine instance is modelled: its attributes, the locals   *)
(* of the running __init__ call, and a history of which species' model     *)
(* output was added into which running array.  A call is split into the    *)
(* set-up (grid, emission measure, abundance, ion gate), one step per      *)
(* candidate of the sorted Todo loop, and the aggregation at the end.      *)
(***************************************************************************)
EXTENDS Integers, Sequences, FiniteSets, TLC

VARIABLES
    pc,             \* "new" | "loop" | "done" | "returned" | "raised"
    err,            \* the exception that ended the call ("" when none)
    runs,           \* number of __init__ calls made on the instance
    args,           \* the arguments of the current call
    attrs,          \* names of the attributes set on self (hasattr)
    Temperature, EDensity, NTempDen, Em, AbundanceName,
    Todo, IonsCalculated, Finished, IonInstances, Intensity,
    FreeFree, FreeBound, LineSpectrum, TwoPhoton, Total, Spectrum,
    todoKeys,       \* the part of sorted(self.Todo.keys()) still to iterate
    freeFree, freeBound, twoPhoton, lineSpectrum,   \* the running arrays
    setupIntensity, ylabel,
    added           \* history: mechanism -> species added into its array

selfVars == <<attrs, Temperature, EDensity, NTempDen, Em, AbundanceName,
              Todo, IonsCalculated, Finished, IonInstances, Intensity,
              FreeFree, FreeBound, LineSpectrum, TwoPhoton, Total, Spectrum>>
localVars == <<todoKeys, freeFree, freeBound, twoPhoton, lineSpectrum,
               setupIntensity, ylabel>>
vars == <<pc, err, runs, args, selfVars, localVars, added>>

---------------------------------------------------------------------------
(* Bounds of the model. *)

\* longest temperature / density / em sequence passed to a call
MaxGrid == 3
\* number of wavelength bins of the output axis
NWvl == 2
\* number of lines each ion's intensity table lists
NLines == 1
\* calls made on one engine instance in the session specification
MaxRuns == 2

---------------------------------------------------------------------------
(* numpy arrays: a shape and the flat row-major buffer. *)

RECURSIVE Prod(_)
Prod(shape) == IF shape = <<>> THEN 1 ELSE Head(shape) * Prod(Tail(shape))

RECURSIVE SumSeq(_)
SumSeq(s) == IF s = <<>> THEN 0 ELSE Head(s) + SumSeq(Tail(s))

\* np.zeros(shape)
zeros(shape) == [shape |-> shape, data |-> [i \in 1..Prod(shape) |-> 0]]

\* np.ones(n) * value
ones(n, value) == [i \in 1..n |-> value]

\* ndarray.squeeze(): axes of length one are dropped, the buffer is kept
squeeze(a) == [shape |-> SelectSeq(a.shape, LAMBDA d : d # 1), data |-> a.data]

\* a += b on arrays of equal size (the shape of a is kept)
iadd(a, b) == [shape |-> a.shape,
               data |-> [i \in 1..Len(a.data) |-> a.data[i] + b.data[i]]]

\* a + b
plus(a, b) == iadd(a, b)

\* total.sum(axis=0)
sumAxis0(a) ==
    IF Len(a.shape) <= 1
    THEN [shape |-> <<>>, data |-> <<SumSeq(a.data)>>]
    ELSE LET n == a.shape[1]
             w == Prod(Tail(a.shape))
         IN  [shape |-> Tail(a.shape),
              data |-> [j \in 1..w |->
                          SumSeq([g \in 1..n |-> a.data[(g - 1) * w + j]])]]

\* element (g, w) of an array accumulated over n grid points and nw bins
At(a, nw, g, w) == a.data[(g - 1) * nw + w]

Max(a, b) == IF a >= b THEN a ELSE b

---------------------------------------------------------------------------
(* Ion identifiers.  Python compares and parses them as character strings; *)
(* Spelling gives the characters of each identifier of the master list as  *)
(* their code points, so that sorted() and convertName() work on them.     *)

MasterList == {"h_1", "h_2", "he_1", "he_2", "c_4", "c_5d", "fe_9", "fe_10"}

Spelling(name) ==
    CASE name = "h_1"   -> <<104, 95, 49>>
      [] name = "h_2"   -> <<104, 95, 50>>
      [] name = "he_1"  -> <<104, 101, 95, 49>>
      [] name = "he_2"  -> <<104, 101, 95, 50>>
      [] name = "c_4"   -> <<99, 95, 52>>
      [] name = "c_5d"  -> <<99, 95, 53, 100>>
      [] name = "fe_9"  -> <<102, 101, 95, 57>>
      [] name = "fe_10" -> <<102, 101, 95, 49, 48>>

\* str.__lt__: the first differing character decides, a proper prefix is less
RECURSIVE LexLess(_, _)
LexLess(s, t) ==
    IF t = <<>> THEN FALSE
    ELSE IF s = <<>> THEN TRUE
    ELSE IF Head(s) # Head(t) THEN Head(s) < Head(t)
    ELSE LexLess(Tail(s), Tail(t))

\* sorted(keys): ascending in the string order
RECURSIVE sorted(_)
sorted(keys) ==
    IF keys = {} THEN <<>>
    ELSE LET least == CHOOSE k \in keys :
                         \A o \in keys \ {k} : LexLess(Spelling(k), Spelling(o))
         IN  <<least>> \o sorted(keys \ {least})

\* const.El: the atomic number of an element symbol
ElZ(symbol) ==
    CASE symbol = <<104>>      -> 1
      [] symbol = <<104, 101>> -> 2
      [] symbol = <<99>>       -> 6
      [] symbol = <<102, 101>> -> 26

RECURSIVE Decimal(_)
Decimal(digits) ==
    IF digits = <<>> THEN 0
    ELSE 10 * Decimal(SubSeq(digits, 1, Len(digits) - 1))
         + (digits[Len(digits)] - 48)

\* util.convertName: element_stage with an optional trailing d
convertName(name) ==
    LET sp   == Spelling(name)
        us   == CHOOSE i \in 1..Len(sp) : sp[i] = 95
        rest == SubSeq(sp, us + 1, Len(sp))
        diel == rest[Len(rest)] = 100
        digs == IF diel THEN SubSeq(rest, 1, Len(rest) - 1) ELSE rest
    IN  [Z |-> ElZ(SubSeq(sp, 1, us - 1)), Ion |-> Decimal(digs),
         Dielectronic |-> diel]

\* Element symbols as a caller writes them in elementList
ElementOf(name) ==
    LET sp == Spelling(name)
        us == CHOOSE i \in 1..Len(sp) : sp[i] = 95
    IN  SubSeq(sp, 1, us - 1)

---------------------------------------------------------------------------
(* chdata: the abundance sets and the defaults. *)

AbundanceList == {"sun_photospheric", "sun_coronal"}

DefaultAbundfile == "sun_photospheric"

\* chdata.Abundance[name]['abundance'][Z - 1]
Abundance(name, Z) ==
    IF name = "sun_photospheric"
    THEN CASE Z = 1 -> 1000 [] Z = 2 -> 85 [] Z = 6 -> 3 [] Z = 26 -> 2
    ELSE CASE Z = 1 -> 1000 [] Z = 2 -> 85 [] Z = 6 -> 4 [] Z = 26 -> 8

---------------------------------------------------------------------------
(* The ion gate (ChiantiPy.base.ionTrails.ionGate). *)

\* A bare nucleus has no line list; it is a candidate for the continuum only.
HasLines(name) == LET c == convertName(name) IN c.Ion <= c.Z

\* elementList and ionList can not both be specified
GateRejects(elementList, ionList) == elementList # {} /\ ionList # {}

\* The candidate set: species -> process tags
ionGate(elementList, ionList, minAbund, doContinuum, abundanceName) ==
    LET passes(n) ==
            /\ Abundance(abundanceName, convertName(n).Z) >= minAbund
            /\ elementList # {} => ElementOf(n) \in elementList
            /\ ionList # {} => n \in ionList
        tags(n) ==
            (IF HasLines(n) THEN {"line"} ELSE {})
            \cup (IF doContinuum /\ ~convertName(n).Dielectronic
                  THEN {"ff", "fb"} ELSE {})
        keys == {n \in MasterList : passes(n) /\ tags(n) # {}}
    IN  [n \in keys |-> tags(n)]

---------------------------------------------------------------------------
(* Python values carry their type: P(type, val). *)

P(type, val) == [type |-> type, val |-> val]

None == P("NoneType", 0)

\* np.asarray(x, 'float64') of a sequence
asarray(seq) == P("ndarray", seq)

\* the size of an array argument
size(seq) == Len(seq)

\* dict[key] = value, and a dict literal read left to right
setitem(dict, key, value) == (key :> value) @@ dict

\* 'errorMessage' not in list(thisIon.Intensity.keys())
NoErrorMessage(table) == "errorMessage" \notin DOMAIN table

---------------------------------------------------------------------------
(* The collaborators: the continuum model and the per-ion emission model.  *)
(* They return one value per (gridpoint, wavelength bin), of the squeezed  *)
(* shape of the running arrays, or fail.                                   *)

\* The value of em at a grid point (a scalar, or a sequence of length 1,
\* counts for every grid point)
EmAt(em, g) ==
    IF em.type = "ndarray"
    THEN (IF Len(em.val) = 1 THEN em.val[1] ELSE em.val[g])
    ELSE em.val

\* The grid the models compute on
ModelGrid(temperature, eDensity) == Max(size(temperature), size(eDensity))

\* The models reject inputs whose lengths cannot be paired
ModelAccepts(temperature, eDensity, em) ==
    /\ \/ size(temperature) = size(eDensity)
       \/ size(temperature) = 1
       \/ size(eDensity) = 1
    /\ em.type = "ndarray" =>
           Len(em.val) \in {1, ModelGrid(temperature, eDensity)}

ModelArray(n, weight) ==
    squeeze([shape |-> <<n, NWvl>>,
             data  |-> [i \in 1..(n * NWvl) |->
                          weight[((i - 1) \div NWvl) + 1, ((i - 1) % NWvl) + 1]]])

Strength(akey) == convertName(akey).Z + convertName(akey).Ion

\* Continuum.free_free_emission
free_free_emission(akey, n, abundance, em) ==
    ModelArray(n, [g \in 1..n, w \in 1..NWvl |->
                       EmAt(em, g) * abundance * (10 + Strength(akey) + w)])

\* Continuum.free_bound_emission
free_bound_emission(akey, n, abundance, em) ==
    ModelArray(n, [g \in 1..n, w \in 1..NWvl |->
                       EmAt(em, g) * abundance * (50 + Strength(akey) + w)])

\* ion.Spectrum['intensity']
ionSpectrum(akey, n, abundance, em) ==
    ModelArray(n, [g \in 1..n, w \in 1..NWvl |->
                       EmAt(em, g) * abundance * (100 + Strength(akey) + g + w)])

\* ion.TwoPhoton['rate'] (twoPhoton is not given em)
twoPhotonRate(akey, n, abundance) ==
    ModelArray(n, [g \in 1..n, w \in 1..NWvl |->
                       abundance * (200 + Strength(akey) + g + w)])

\* What the per-ion model's intensity() may leave in thisIon.Intensity
LineOutcomes == {"ok", "errorMessage", "extraKey", "missingKey"}

\* What calculate_free_bound_emission may do
FreeBoundOutcomes == {"ok", "ValueError", "error"}

\* The keys of an intensity table, in the dict's iteration order
KeyOrder == <<"wvl", "intensity", "obs", "errorMessage">>

\* thisIon.Intensity after intensity()
ionIntensity(akey, outcome) ==
    LET keys == CASE outcome = "ok"           -> {"wvl", "intensity"}
                  [] outcome = "extraKey"     -> {"wvl", "intensity", "obs"}
                  [] outcome = "missingKey"   -> {"wvl"}
                  [] outcome = "errorMessage" -> {"errorMessage"}
    IN  [k \in keys |-> [i \in 1..NLines |-> <<akey, k, i>>]]

\* np.hstack((a, b)) along the line-list dimension
hstack(a, b) == a \o b

---------------------------------------------------------------------------
(* The state before the first call on the instance. *)

EmptyDict == <<>>

NoArray == [shape |-> <<0>>, data |-> <<>>]

NoHistory == [ff |-> {}, fb |-> {}, line |-> {}, tp |-> {}, failed |-> {}]

Ended == {"done", "returned", "raised"}

Init ==
    /\ pc = "new" /\ err = "" /\ runs = 0
    /\ args = [variant |-> "none"]
    /\ attrs = {}
    /\ Temperature = <<>> /\ EDensity = <<>> /\ NTempDen = 0
    /\ Em = None /\ AbundanceName = ""
    /\ Todo = EmptyDict /\ IonsCalculated = <<>> /\ Finished = <<>>
    /\ IonInstances = EmptyDict /\ Intensity = EmptyDict
    /\ FreeFree = EmptyDict /\ FreeBound = EmptyDict
    /\ LineSpectrum = EmptyDict /\ TwoPhoton = EmptyDict
    /\ Total = NoArray /\ Spectrum = EmptyDict
    /\ todoKeys = <<>>
    /\ freeFree = NoArray /\ freeBound = NoArray
    /\ twoPhoton = NoArray /\ lineSpectrum = NoArray
    /\ setupIntensity = FALSE /\ ylabel = "unbound"
    /\ added = NoHistory

---------------------------------------------------------------------------
(* spectrum.__init__: the set-up, lines 78-148. *)

\* self.NTempDen = max([nTemp, nDen])
spectrumNTempDen(temperature, eDensity) == Max(size(temperature), size(eDensity))

\* em as stored in self.Em
emNormalize(em, n) ==
    IF em.type = "int" /\ em.val = 0 THEN asarray(ones(n, 1))
    ELSE IF em.type = "float" /\ em.val > 0 THEN asarray(ones(n, em.val))
    ELSE IF em.type \in {"list", "tuple"} THEN asarray(em.val)
    ELSE em

\* the local ylabel, bound only in the three branches on em
emYlabel(em) ==
    IF em.type = "int" /\ em.val = 0 THEN "per unit emission measure"
    ELSE IF em.type = "float" /\ em.val > 0 THEN "plain"
    ELSE IF em.type \in {"list", "tuple"} THEN "plain"
    ELSE "unbound"

\* abundanceNotAString without the type test
abundanceNotAString_never(abundance) == FALSE

\* keyword abundance must be a string: print and return
abundanceNotAString(abundance) ==
    abundance.type # "NoneType" /\ abundance.type # "str"

\* self.AbundanceName; choice is what the selector dialog returns
spectrumAbundanceName(abundance, choice) ==
    IF abundance.type = "NoneType" THEN DefaultAbundfile
    ELSE IF abundance.type = "str" /\ abundance.val \in AbundanceList
    THEN abundance.val
    ELSE choice

\* np.zeros((nTempDen, nWvl), 'float64').squeeze()
runningZeros(nTempDen) == squeeze(zeros(<<nTempDen, NWvl>>))

spectrum_init(a, choice) ==
    LET n      == spectrumNTempDen(a.temperature, a.eDensity)
        stop   == abundanceNotAString(a.abundance)
        name   == spectrumAbundanceName(a.abundance, choice)
        reject == ~stop /\ GateRejects(a.elementList, a.ionList)
        todo   == ionGate(a.elementList, a.ionList, a.minAbund,
                          a.doContinuum, name)
    IN  /\ a.variant = "spectrum"
        /\ runs' = runs + 1
        /\ args' = a
        /\ added' = NoHistory
        /\ setupIntensity' = FALSE
        /\ Temperature' = a.temperature
        /\ EDensity' = a.eDensity
        /\ NTempDen' = n
        /\ Em' = emNormalize(a.em, n)
        /\ ylabel' = emYlabel(a.em)
        /\ IF stop
           THEN /\ pc' = "returned"
                /\ err' = "keyword abundance must be a string"
                /\ attrs' = attrs \cup {"Defaults", "Temperature", "EDensity",
                                        "NTempDen", "Wavelength", "Em"}
                /\ UNCHANGED <<AbundanceName, IonsCalculated, Finished,
                               IonInstances, Todo, todoKeys, freeFree,
                               freeBound, twoPhoton, lineSpectrum>>
           ELSE /\ AbundanceName' = name
                /\ freeFree' = runningZeros(n)
                /\ freeBound' = runningZeros(n)
                /\ twoPhoton' = runningZeros(n)
                /\ lineSpectrum' = runningZeros(n)
                /\ IonsCalculated' = <<>>
                /\ IonInstances' = IF a.keepIons THEN EmptyDict ELSE IonInstances
                /\ Finished' = <<>>
                /\ attrs' = attrs
                       \cup {"Defaults", "Temperature", "EDensity", "NTempDen",
                             "Wavelength", "Em", "AbundanceName", "Abundance",
                             "AbundAll", "MinAbund", "IonsCalculated", "Finished"}
                       \cup (IF a.keepIons THEN {"IonInstances"} ELSE {})
                       \cup (IF reject THEN {} ELSE {"Todo"})
                /\ IF reject
                   THEN /\ pc' = "raised"
                        /\ err' = "ConfigurationError"
                        /\ UNCHANGED <<Todo, todoKeys>>
                   ELSE /\ pc' = "loop"
                        /\ err' = ""
                        /\ Todo' = todo
                        /\ todoKeys' = sorted(DOMAIN todo)
        /\ UNCHANGED <<Intensity, FreeFree, FreeBound, LineSpectrum,
                       TwoPhoton, Total, Spectrum>>

---------------------------------------------------------------------------
(* spectrum.__init__: one pass of the loop over sorted(self.Todo.keys()),  *)
(* lines 150-201.                                                          *)

\* freeBoundRaises without the except clause
freeBoundRaises_uncaught(fbOut) == fbOut # "ok"

\* except ValueError: pass -- any other exception of the free-bound call
\* leaves the loop
freeBoundRaises(fbOut) == fbOut = "error"

\* lineFinished without the test for 'errorMessage'
lineFinished_ignoringErrorMessage(reached, table) == reached

\* the branch of line 183: the ion is finished and its lines are merged
lineFinished(reached, table) == reached /\ NoErrorMessage(table)

\* for bkey in self.Intensity: ... thisIon.Intensity[bkey] raises KeyError
\* at the first established key the ion's table lacks
intensityKeyError(established, table) ==
    \E bkey \in DOMAIN established : bkey \notin DOMAIN table

\* self.Intensity after the merge loop; up to a KeyError the keys before
\* the missing one are already stacked
mergeIntensity(established, table) ==
    LET order   == SelectSeq(KeyOrder, LAMBDA k : k \in DOMAIN established)
        missing == {i \in 1..Len(order) : order[i] \notin DOMAIN table}
        stop    == IF missing = {} THEN Len(order) + 1
                   ELSE CHOOSE i \in missing : \A j \in missing : i <= j
        index(k) == CHOOSE i \in 1..Len(order) : order[i] = k
    IN  [bkey \in DOMAIN established |->
            IF index(bkey) < stop
            THEN hstack(established[bkey], table[bkey])
            ELSE established[bkey]]

\* twoPhotonApplies without the test for a dielectronic species
twoPhotonApplies_dielectronicToo(akey) ==
    LET zStuff == convertName(akey)
    IN  (zStuff.Z - zStuff.Ion) \in {0, 1}

\* get 2 photon emission for H and He sequences (line 199)
twoPhotonApplies(akey) ==
    LET zStuff == convertName(akey)
    IN  (zStuff.Z - zStuff.Ion) \in {0, 1} /\ ~zStuff.Dielectronic

spectrum_loop(fbOut, lineOut) ==
    /\ pc = "loop"
    /\ args.variant = "spectrum"
    /\ todoKeys # <<>>
    /\ LET akey      == Head(todoKeys)
           tags      == Todo[akey]
           abundance == Abundance(AbundanceName, convertName(akey).Z)
           n         == ModelGrid(args.temperature, args.eDensity)
           accepts   == ModelAccepts(args.temperature, args.eDensity, Em)
           doFF      == accepts /\ "ff" \in tags
           doFB      == accepts /\ "fb" \in tags
           fbRaises  == doFB /\ freeBoundRaises(fbOut)
           fbAdds    == doFB /\ fbOut = "ok"
           reached   == accepts /\ ~fbRaises /\ "line" \in tags
           table     == ionIntensity(akey, lineOut)
           finished  == lineFinished(reached, table)
           keyError  == finished /\ setupIntensity
                        /\ intensityKeyError(Intensity, table)
           lineAdds  == finished /\ ~keyError
           tpAdds    == reached /\ ~keyError /\ twoPhotonApplies(akey)
           raised    == ~accepts \/ fbRaises \/ keyError
       IN  /\ freeFree' = IF doFF
                          THEN iadd(freeFree, free_free_emission(akey, n, abundance, Em))
                          ELSE freeFree
           /\ freeBound' = IF fbAdds
                           THEN iadd(freeBound, free_bound_emission(akey, n, abundance, Em))
                           ELSE freeBound
           /\ IonsCalculated' = IF reached THEN Append(IonsCalculated, akey)
                                ELSE IonsCalculated
           /\ Finished' = IF finished THEN Append(Finished, akey) ELSE Finished
           /\ IonInstances' =
                  IF finished /\ args.keepIons
                  THEN setitem(IonInstances, akey,
                               [Intensity |-> table,
                                Spectrum  |-> ionSpectrum(akey, n, abundance, Em)])
                  ELSE IonInstances
           /\ Intensity' = IF ~finished THEN Intensity
                           ELSE IF setupIntensity
                                THEN mergeIntensity(Intensity, table)
                                ELSE table
           /\ setupIntensity' = (setupIntensity \/ finished)
           /\ attrs' = attrs \cup (IF finished THEN {"Intensity"} ELSE {})
           /\ lineSpectrum' = IF lineAdds
                              THEN iadd(lineSpectrum, ionSpectrum(akey, n, abundance, Em))
                              ELSE lineSpectrum
           /\ twoPhoton' = IF tpAdds
                           THEN iadd(twoPhoton, twoPhotonRate(akey, n, abundance))
                           ELSE twoPhoton
           /\ added' = [ff     |-> added.ff \cup (IF doFF THEN {akey} ELSE {}),
                        fb     |-> added.fb \cup (IF fbAdds THEN {akey} ELSE {}),
                        line   |-> added.line \cup (IF lineAdds THEN {akey} ELSE {}),
                        tp     |-> added.tp \cup (IF tpAdds THEN {akey} ELSE {}),
                        failed |-> added.failed
                                   \cup (IF reached /\ lineOut = "errorMessage"
                                         THEN {akey} ELSE {})]
           /\ pc' = IF raised THEN "raised" ELSE "loop"
           /\ err' = IF ~accepts THEN "operands could not be broadcast together"
                     ELSE IF fbRaises
                          THEN (IF fbOut = "ValueError" THEN "ValueError"
                                ELSE "free-bound model error")
                     ELSE IF keyError THEN "KeyError"
                     ELSE ""
           /\ todoKeys' = IF raised THEN todoKeys ELSE Tail(todoKeys)
    /\ UNCHANGED <<runs, args, Temperature, EDensity, NTempDen, Em,
                   AbundanceName, Todo, FreeFree, FreeBound, LineSpectrum,
                   TwoPhoton, Total, Spectrum, ylabel>>

---------------------------------------------------------------------------
(* spectrum.__init__: the aggregation, lines 203-228. *)

\* the wavelength axis of the calls
Wavelength == [i \in 1..NWvl |-> 10 * i]

\* totalOf with the two-photon term left out
totalOf_withoutTwoPhoton(ff, fb, line, tp) == plus(plus(ff, fb), line)

\* total = freeFree + freeBound + lineSpectrum + twoPhoton
totalOf(ff, fb, line, tp) == plus(plus(plus(ff, fb), line), tp)

\* integrated: total when nTempDen == 1, else total.sum(axis=0)
integratedOf(nTempDen, total) ==
    IF nTempDen = 1 THEN total ELSE sumAxis0(total)

\* {'wavelength': wavelength, 'intensity': array.squeeze()}
mechanismDict(array) ==
    [wavelength |-> P("ndarray", Wavelength),
     intensity  |-> P("ndarray", squeeze(array))]

\* the keys the three dict literals of lines 221-228 share
recordCommon(total, integrated, ions, abundanceName, yl) ==
    [wavelength |-> P("ndarray", Wavelength),
     intensity  |-> P("ndarray", squeeze(total)),
     filter     |-> P("str", "gaussianR"),
     width      |-> P("float", 1000),
     integrated |-> P("ndarray", integrated),
     ions       |-> P("list", ions),
     Abundance  |-> P("str", abundanceName),
     xlabel     |-> P("str", "Wavelength (Angstrom)"),
     ylabel     |-> P("str", yl)]

\* self.Spectrum after lines 219-228
storeSpectrum(old, hasSpectrum, label, common, em, minAbund) ==
    IF label.type = "str"
    THEN IF hasSpectrum
         THEN setitem(old, label.val,
                      P("dict", setitem(setitem(common, "em", em),
                                        "minAbund", P("float", minAbund))))
         ELSE setitem(setitem(EmptyDict, label.val,
                              P("dict", setitem(common, "em", em))),
                      "minAbund", P("float", minAbund))
    ELSE setitem(common, "minAbund", P("float", minAbund))

spectrum_finish ==
    /\ pc = "loop"
    /\ args.variant = "spectrum"
    /\ todoKeys = <<>>
    /\ LET total      == totalOf(freeFree, freeBound, lineSpectrum, twoPhoton)
           integrated == integratedOf(NTempDen, total)
           common     == recordCommon(total, integrated, IonsCalculated,
                                      AbundanceName, ylabel)
       IN  /\ FreeFree' = mechanismDict(freeFree)
           /\ FreeBound' = mechanismDict(freeBound)
           /\ LineSpectrum' = mechanismDict(lineSpectrum)
           /\ TwoPhoton' = mechanismDict(twoPhoton)
           /\ Total' = total
           /\ IF ylabel = "unbound"
              THEN /\ pc' = "raised"
                   /\ err' = "UnboundLocalError"
                   /\ attrs' = attrs \cup {"FreeFree", "FreeBound", "LineSpectrum",
                                           "TwoPhoton", "Total"}
                   /\ UNCHANGED Spectrum
              ELSE /\ pc' = "done"
                   /\ err' = ""
                   /\ attrs' = attrs \cup {"FreeFree", "FreeBound", "LineSpectrum",
                                           "TwoPhoton", "Total", "Spectrum"}
                   /\ Spectrum' = storeSpectrum(Spectrum, "Spectrum" \in attrs,
                                                args.label, common, Em,
                                                args.minAbund)
    /\ UNCHANGED <<runs, args, Temperature, EDensity, NTempDen, Em,
                   AbundanceName, Todo, IonsCalculated, Finished, IonInstances,
                   Intensity, localVars, added>>

---------------------------------------------------------------------------
(* bunch.__init__: the set-up, lines 282-360. *)

\* whether lines 304-313 assign self.NTempDen
bunchAssignsNTempDen(ntemp, ndens) ==
    LET tst1  == ndens = ntemp
        tst1a == ndens # ntemp
        tst2  == ntemp > 1
        tst3  == ndens > 1
        tst4  == ndens > 1 /\ ntemp > 1
    IN  \/ tst1 /\ ntemp = 1
        \/ tst1a /\ (tst2 \/ tst3) /\ ~tst4
        \/ tst1 /\ tst4

\* the value lines 304-313 assign
bunchNTempDen(ntemp, ndens) ==
    IF ndens = ntemp /\ ntemp = 1 THEN 1
    ELSE IF ndens # ntemp THEN ntemp * ndens
    ELSE ntemp

\* np.ones_like(other) * one: the length-one array tiled to the other's length
onesLikeTimes(other, one) == [i \in 1..Len(other) |-> one[1]]

\* self.Temperature after lines 289-313
bunchTemperature(temperature, eDensity) ==
    LET ntemp == size(temperature)
        ndens == size(eDensity)
        n     == ntemp * ndens
    IN  IF ndens # ntemp /\ (ntemp > 1 \/ ndens > 1) /\ ~(ndens > 1 /\ ntemp > 1)
           /\ ~(ntemp = n /\ ndens # n) /\ (ndens = n /\ ntemp # n)
        THEN onesLikeTimes(eDensity, temperature)
        ELSE temperature

\* bunchEDensity without the tiling of line 309
bunchEDensity_asGiven(temperature, eDensity) == eDensity

\* self.EDensity after lines 289-313
bunchEDensity(temperature, eDensity) ==
    LET ntemp == size(temperature)
        ndens == size(eDensity)
        n     == ntemp * ndens
    IN  IF ndens # ntemp /\ (ntemp > 1 \/ ndens > 1) /\ ~(ndens > 1 /\ ntemp > 1)
           /\ (ntemp = n /\ ndens # n)
        THEN onesLikeTimes(temperature, eDensity)
        ELSE eDensity

\* np.ones(self.NTempDen) is evaluated: em is the int 0 or a positive float
emReadsNTempDen(em) ==
    \/ em.type = "int" /\ em.val = 0
    \/ em.type = "float" /\ em.val > 0

\* if abundanceName: -- 0, '' and None are false
truthy(value) ==
    /\ value.type # "NoneType"
    /\ value.type = "int" => value.val # 0
    /\ value.type = "str" => value.val # ""

\* self.AbundanceName in bunch; choice is what the selector dialog returns
bunchAbundanceName(abundanceName, choice) ==
    IF truthy(abundanceName)
    THEN IF abundanceName.type = "str" /\ abundanceName.val \in AbundanceList
         THEN abundanceName.val
         ELSE choice
    ELSE DefaultAbundfile

bunch_init(a, choice) ==
    LET ntemp   == size(a.temperature)
        ndens   == size(a.eDensity)
        assigns == bunchAssignsNTempDen(ntemp, ndens)
        hasN    == assigns \/ "NTempDen" \in attrs
        n       == IF assigns THEN bunchNTempDen(ntemp, ndens) ELSE NTempDen
        noN     == ~hasN /\ emReadsNTempDen(a.em)
        name    == bunchAbundanceName(a.abundance, choice)
        reject  == ~noN /\ GateRejects(a.elementList, a.ionList)
        todo    == ionGate(a.elementList, a.ionList, a.minAbund, FALSE, name)
    IN  /\ a.variant = "bunch"
        /\ runs' = runs + 1
        /\ args' = a
        /\ added' = NoHistory
        /\ setupIntensity' = FALSE
        /\ Temperature' = bunchTemperature(a.temperature, a.eDensity)
        /\ EDensity' = bunchEDensity(a.temperature, a.eDensity)
        /\ NTempDen' = n
        /\ IF noN
           THEN /\ pc' = "raised"
                /\ err' = "AttributeError"
                /\ attrs' = attrs \cup {"Defaults", "Temperature", "EDensity",
                                        "NEDens"}
                /\ UNCHANGED <<Em, AbundanceName, IonsCalculated, Finished,
                               IonInstances, Todo, todoKeys>>
           ELSE /\ Em' = emNormalize(a.em, n)
                /\ AbundanceName' = name
                /\ IonsCalculated' = <<>>
                /\ IonInstances' = IF a.keepIons THEN EmptyDict ELSE IonInstances
                /\ Finished' = <<>>
                /\ attrs' = attrs
                       \cup {"Defaults", "Temperature", "EDensity", "NEDens",
                             "Em", "AbundanceName", "AbundAll",
                             "IonsCalculated", "Finished", "WvlRange"}
                       \cup (IF assigns THEN {"NTempDen"} ELSE {})
                       \cup (IF a.keepIons THEN {"IonInstances"} ELSE {})
                       \cup (IF reject THEN {} ELSE {"Todo"})
                /\ IF reject
                   THEN /\ pc' = "raised"
                        /\ err' = "ConfigurationError"
                        /\ UNCHANGED <<Todo, todoKeys>>
                   ELSE /\ pc' = "loop"
                        /\ err' = ""
                        /\ Todo' = todo
                        /\ todoKeys' = sorted(DOMAIN todo)
        /\ UNCHANGED <<Intensity, FreeFree, FreeBound, LineSpectrum, TwoPhoton,
                       Total, Spectrum, freeFree, freeBound, twoPhoton,
                       lineSpectrum, ylabel>>

---------------------------------------------------------------------------
(* bunch.__init__: one pass of the loop, lines 362-386, and the end. *)

bunch_loop(lineOut) ==
    /\ pc = "loop"
    /\ args.variant = "bunch"
    /\ todoKeys # <<>>
    /\ LET ionS      == Head(todoKeys)
           abundance == Abundance(AbundanceName, convertName(ionS).Z)
           n         == ModelGrid(args.temperature, args.eDensity)
           accepts   == ModelAccepts(args.temperature, args.eDensity, Em)
           table     == ionIntensity(ionS, lineOut)
           finished  == lineFinished(accepts, table)
           keyError  == finished /\ setupIntensity
                        /\ intensityKeyError(Intensity, table)
           raised    == ~accepts \/ keyError
       IN  /\ IonsCalculated' = IF accepts THEN Append(IonsCalculated, ionS)
                                ELSE IonsCalculated
           /\ Finished' = IF finished THEN Append(Finished, ionS) ELSE Finished
           /\ IonInstances' =
                  IF finished /\ args.keepIons
                  THEN setitem(IonInstances, ionS, [Intensity |-> table])
                  ELSE IonInstances
           /\ Intensity' = IF ~finished THEN Intensity
                           ELSE IF setupIntensity
                                THEN mergeIntensity(Intensity, table)
                                ELSE table
           /\ setupIntensity' = (setupIntensity \/ finished)
           /\ attrs' = attrs \cup (IF finished THEN {"Intensity"} ELSE {})
           /\ added' = [added EXCEPT
                          !.failed = @ \cup (IF accepts /\ lineOut = "errorMessage"
                                             THEN {ionS} ELSE {})]
           /\ pc' = IF raised THEN "raised" ELSE "loop"
           /\ err' = IF ~accepts THEN "operands could not be broadcast together"
                     ELSE IF keyError THEN "KeyError"
                     ELSE ""
           /\ todoKeys' = IF raised THEN todoKeys ELSE Tail(todoKeys)
    /\ UNCHANGED <<runs, args, Temperature, EDensity, NTempDen, Em,
                   AbundanceName, Todo, FreeFree, FreeBound, LineSpectrum,
                   TwoPhoton, Total, Spectrum, freeFree, freeBound, twoPhoton,
                   lineSpectrum, ylabel>>

bunch_finish ==
    /\ pc = "loop"
    /\ args.variant = "bunch"
    /\ todoKeys = <<>>
    /\ pc' = "done"
    /\ UNCHANGED <<err, runs, args, selfVars, localVars, added>>

---------------------------------------------------------------------------
(* The calls a caller makes. *)

\* a temperature or density argument of the given length
GridArg(base, len) == [i \in 1..len |-> base + i]

Temperatures(maxLen) == {GridArg(10, len) : len \in 1..maxLen}

Densities(maxLen) == {GridArg(20, len) : len \in 1..maxLen}

\* em: absent, a float, or a list
EmArgs(maxLen) ==
    {P("int", 0), P("float", 2), P("float", 0)}
    \cup {P("list", GridArg(1, len)) : len \in 1..maxLen}

Call(variant, temperature, eDensity, em, label, abundance, gate, doContinuum, keepIons) ==
    [variant |-> variant, temperature |-> temperature, eDensity |-> eDensity,
     em |-> em, label |-> label, abundance |-> abundance,
     elementList |-> gate.elementList, ionList |-> gate.ionList,
     minAbund |-> gate.minAbund, doContinuum |-> doContinuum,
     keepIons |-> keepIons]

Gate(elementList, ionList, minAbund) ==
    [elementList |-> elementList, ionList |-> ionList, minAbund |-> minAbund]

\* elementList=['h'], ionList=['h_1'], ... ; 0 is the empty selection
OnlyH == Gate({<<104>>}, {}, 1)
OnlyC == Gate({<<99>>}, {}, 1)
OnlyCAbundant == Gate({<<99>>}, {}, 50)
Abundant == Gate({}, {}, 50)
IronIons == Gate({}, {"fe_9", "fe_10"}, 1)
OneIon == Gate({}, {"h_1"}, 1)
BothFilters == Gate({<<104>>}, {"he_1"}, 1)

NoLabel == P("int", 0)

\* A call starts on a fresh instance, or on one whose last call has ended
MayCall(maxRuns) ==
    \/ pc = "new"
    \/ pc \in Ended /\ runs < maxRuns

NextOver(calls, lineOuts, fbOuts, maxRuns) ==
    \/ \E a \in calls, choice \in AbundanceList :
           MayCall(maxRuns) /\ spectrum_init(a, choice)
    \/ \E fbOut \in fbOuts, lineOut \in lineOuts : spectrum_loop(fbOut, lineOut)
    \/ spectrum_finish
    \/ \E a \in calls, choice \in AbundanceList :
           MayCall(maxRuns) /\ bunch_init(a, choice)
    \/ \E lineOut \in lineOuts : bunch_loop(lineOut)
    \/ bunch_finish

(* Synthesis: one call on a fresh instance, every gate and every outcome   *)
(* of the collaborators.                                                   *)
SynthCalls ==
    {Call(v, GridArg(10, nT), GridArg(20, 1), em, NoLabel, None, g, dc, TRUE) :
        v \in {"spectrum", "bunch"}, nT \in 1..(MaxGrid - 1),
        em \in {P("int", 0), P("float", 2)},
        g \in {OnlyH, OnlyC, OnlyCAbundant, Abundant, IronIons},
        dc \in BOOLEAN}

NextSynth == NextOver(SynthCalls, LineOutcomes, FreeBoundOutcomes, 1)

SpecSynth == Init /\ [][NextSynth]_vars

(* Grid: one call on a fresh instance, every pairing of temperature,       *)
(* density and em lengths.                                                 *)
GridCalls ==
    {Call(v, t, d, em, NoLabel, None, OnlyH, TRUE, FALSE) :
        v \in {"spectrum", "bunch"}, t \in Temperatures(MaxGrid),
        d \in Densities(MaxGrid), em \in EmArgs(MaxGrid)}

NextGrid == NextOver(GridCalls, {"ok", "errorMessage"}, {"ok", "ValueError"}, 1)

SpecGrid == Init /\ [][NextGrid]_vars

(* Session: repeated calls on one instance, with and without labels, with  *)
(* valid and invalid configuration.                                        *)
SessionCalls ==
    {Call(v, GridArg(10, 1), GridArg(20, 1), P("int", 0), l, ab, g, FALSE, FALSE) :
        v \in {"spectrum", "bunch"},
        l \in {NoLabel, P("str", "run1"), P("str", "run2"), P("str", "minAbund")},
        ab \in {None, P("str", "sun_coronal"), P("str", ""), P("int", 5)},
        g \in {OneIon, BothFilters}}

NextSession == NextOver(SessionCalls, {"ok", "errorMessage"}, {"ok"}, MaxRuns)

SpecSession == Init /\ [][NextSession]_vars

---------------------------------------------------------------------------
(* Vocabulary of the properties. *)

Range(seq) == {seq[i] : i \in 1..Len(seq)}

Occurrences(seq, x) == Cardinality({i \in 1..Len(seq) : seq[i] = x})

IsSpectrum == args.variant = "spectrum"

IsBunch == args.variant = "bunch"

\* the candidates tagged with a process, in the iteration order
Tagged(tag) == SelectSeq(sorted(DOMAIN Todo), LAMBDA k : tag \in Todo[k])

\* the sum of term[s] over the species of a set, from the zero running array
RECURSIVE SumOver(_, _, _)
SumOver(species, zero, term) ==
    IF species = {} THEN zero
    ELSE LET s == CHOOSE x \in species : TRUE
         IN  iadd(SumOver(species \ {s}, zero, term), term[s])

RunGrid == ModelGrid(args.temperature, args.eDensity)

AbundanceOf(akey) == Abundance(AbundanceName, convertName(akey).Z)

---------------------------------------------------------------------------
(* C1 (as amended): after a completed run Finished is a subset of           *)
(* IonsCalculated, in spectrum the species whose line contribution was      *)
(* added to LineSpectrum are exactly those in Finished, and the species in  *)
(* IonsCalculated but not in Finished are exactly those whose per-ion line  *)
(* model reported a failure; none of them was added to LineSpectrum.        *)
C1_FailedIonsAddNoLines ==
    pc = "done" =>
        /\ Range(Finished) \subseteq Range(IonsCalculated)
        /\ IsSpectrum => added.line = Range(Finished)
        /\ Range(IonsCalculated) \ Range(Finished) = added.failed
        /\ added.failed \cap added.line = {}

\* C1 witness: a completed spectrum run with a finished ion and a failed
\* ion that was added to FreeFree and TwoPhoton
C1_Witness ==
    /\ pc = "done" /\ IsSpectrum
    /\ Finished # <<>>
    /\ \E s \in added.failed : s \in added.tp /\ s \in added.ff

(* C1 as stated: a species in IonsCalculated but not in Finished has        *)
(* contributed nothing to LineSpectrum, FreeFree, FreeBound or TwoPhoton.   *)
C1_FailedIonsAddNothing ==
    pc = "done" =>
        /\ Range(Finished) \subseteq Range(IonsCalculated)
        /\ IsSpectrum => Range(Finished) \subseteq added.line
        /\ \A s \in Range(IonsCalculated) \ Range(Finished) :
               s \notin added.line \cup added.ff \cup added.fb \cup added.tp

---------------------------------------------------------------------------
(* C2: whenever a spectrum run has set Total, Total equals FreeFree +       *)
(* FreeBound + LineSpectrum + TwoPhoton of the exposed arrays at every      *)
(* (gridpoint, wavelength bin), and has their shape.                        *)
C2_TotalIsSumOfMechanisms ==
    "Total" \in attrs =>
        /\ Total.shape = FreeFree.intensity.val.shape
        /\ Len(Total.data) = NTempDen * NWvl
        /\ \A g \in 1..NTempDen, w \in 1..NWvl :
               At(Total, NWvl, g, w)
                   = At(FreeFree.intensity.val, NWvl, g, w)
                     + At(FreeBound.intensity.val, NWvl, g, w)
                     + At(LineSpectrum.intensity.val, NWvl, g, w)
                     + At(TwoPhoton.intensity.val, NWvl, g, w)

\* C2 witness: a completed run over two grid points in which every
\* mechanism added something, after one ion failed
C2_Witness ==
    /\ pc = "done" /\ IsSpectrum /\ NTempDen = 2
    /\ added.ff # {} /\ added.fb # {} /\ added.line # {} /\ added.tp # {}
    /\ added.failed # {}
    /\ At(TwoPhoton.intensity.val, NWvl, 2, NWvl) > 0

---------------------------------------------------------------------------
(* C8: a free-bound data-unavailable signal or a per-ion line failure       *)
(* never ends the run; at the end every line-tagged candidate is in         *)
(* IonsCalculated exactly once, in candidate order, Finished is the         *)
(* line-tagged candidates that did not fail, and each running array is the  *)
(* sum of the contributions of its own species, whatever happened to the    *)
(* others.                                                                  *)
C8_RecoverableConditionsIsolated ==
    /\ pc = "raised" => err # "ValueError"
    /\ pc = "done" =>
        /\ IonsCalculated = Tagged("line")
        /\ \A k \in DOMAIN Todo :
               "line" \in Todo[k] => Occurrences(IonsCalculated, k) = 1
        /\ Finished = SelectSeq(Tagged("line"), LAMBDA k : k \notin added.failed)
    /\ (pc = "done" /\ IsSpectrum) =>
        /\ added.ff = Range(Tagged("ff"))
        /\ added.fb \subseteq Range(Tagged("fb"))
        /\ freeFree = SumOver(Range(Tagged("ff")), runningZeros(NTempDen),
               [s \in DOMAIN Todo |-> free_free_emission(s, RunGrid, AbundanceOf(s), Em)])
        /\ freeBound = SumOver(added.fb, runningZeros(NTempDen),
               [s \in DOMAIN Todo |-> free_bound_emission(s, RunGrid, AbundanceOf(s), Em)])
        /\ lineSpectrum = SumOver(Range(Finished), runningZeros(NTempDen),
               [s \in DOMAIN Todo |-> ionSpectrum(s, RunGrid, AbundanceOf(s), Em)])

\* C8 witness: a completed spectrum run in which one ion failed, another
\* finished, and a species' free-bound data was unavailable
C8_Witness ==
    /\ pc = "done" /\ IsSpectrum
    /\ added.failed # {} /\ Finished # <<>>
    /\ Len(IonsCalculated) >= 3
    /\ \E s \in Range(Tagged("fb")) : s \notin added.fb
    /\ added.fb # {}

---------------------------------------------------------------------------
(* C10: in spectrum the species added to TwoPhoton are exactly the          *)
(* line-tagged candidates processed so far whose atomic number minus        *)
(* ionization stage is 0 or 1 and that are not dielectronic, whether or not *)
(* their line computation succeeded; TwoPhoton holds their rates only.      *)
C10_TwoPhotonForHAndHeSequences ==
    (pc \in {"loop", "done"} /\ IsSpectrum) =>
        LET due == {s \in Range(IonsCalculated) :
                       /\ convertName(s).Z - convertName(s).Ion \in {0, 1}
                       /\ ~convertName(s).Dielectronic}
        IN  /\ added.tp = due
            /\ twoPhoton = SumOver(due, runningZeros(NTempDen),
                   [s \in DOMAIN Todo |-> twoPhotonRate(s, RunGrid, AbundanceOf(s))])

\* C10 witness: he_1 failed and was still added, h_2 (no lines) was not
C10_Witness ==
    /\ pc = "done" /\ IsSpectrum
    /\ "he_1" \in added.failed /\ "he_1" \in added.tp
    /\ "h_1" \in Range(Finished) /\ "h_1" \in added.tp
    /\ "h_2" \in DOMAIN Todo /\ "h_2" \notin added.tp

---------------------------------------------------------------------------
(* C9 as stated: the merged IntensityTable has the key set of the first     *)
(* finished ion, each key's array is the concatenation in candidate order   *)
(* of that key's arrays of the ions in Finished, and every finished ion's   *)
(* key set is the established one (a differing one ends the run).           *)
C9_MergedTableOfFinishedIons ==
    (pc \in {"loop", "done"} /\ Finished # <<>>) =>
        /\ DOMAIN Intensity = DOMAIN IonInstances[Finished[1]].Intensity
        /\ \A s \in Range(Finished) :
               DOMAIN IonInstances[s].Intensity = DOMAIN Intensity
        /\ \A k \in DOMAIN Intensity :
               Len(Intensity[k]) = Len(Finished) * NLines
               /\ \A i \in 1..Len(Finished), j \in 1..NLines :
                      Intensity[k][(i - 1) * NLines + j] = <<Finished[i], k, j>>

---------------------------------------------------------------------------
(* Vocabulary of the grid properties. *)

\* lengths unequal and both greater than 1
GridMismatch(a) ==
    /\ size(a.temperature) # size(a.eDensity)
    /\ size(a.temperature) > 1
    /\ size(a.eDensity) > 1

\* one of the two has length 1 and the other is longer
OneIsLong(a) ==
    \/ size(a.temperature) = 1 /\ size(a.eDensity) > 1
    \/ size(a.eDensity) = 1 /\ size(a.temperature) > 1

LongLength(a) == Max(size(a.temperature), size(a.eDensity))

\* seq is n copies of the single value of one
Tiled(seq, one, n) == Len(seq) = n /\ \A i \in 1..n : seq[i] = one[1]

---------------------------------------------------------------------------
(* C4 as stated: a call whose temperature and density lengths are unequal   *)
(* and both greater than 1 is rejected before the ion gate: it raises, no   *)
(* candidate set is built and no species is computed.                       *)
C4_MismatchedGridRejected ==
    (pc # "new" /\ GridMismatch(args)) =>
        /\ pc = "raised"
        /\ "Todo" \notin attrs
        /\ IonsCalculated = <<>>
        /\ added = NoHistory

---------------------------------------------------------------------------
(* C6 (as amended): when one of temperature/density has length 1 and the   *)
(* other length N > 1, NTempDen is N in spectrum and in bunch; bunch stores *)
(* both arrays with length N, the length-1 one tiled to N equal copies,     *)
(* while spectrum stores both arrays as given (lengths 1 and N); when both  *)
(* have length 1, NTempDen is 1.                                            *)
C6_GridNormalization ==
    pc # "new" =>
        /\ (size(args.temperature) = 1 /\ size(args.eDensity) = 1) => NTempDen = 1
        /\ OneIsLong(args) =>
            /\ NTempDen = LongLength(args)
            /\ IsBunch =>
                /\ Len(Temperature) = NTempDen /\ Len(EDensity) = NTempDen
                /\ size(args.eDensity) = 1 =>
                       Tiled(EDensity, args.eDensity, NTempDen)
                       /\ Temperature = args.temperature
                /\ size(args.temperature) = 1 =>
                       Tiled(Temperature, args.temperature, NTempDen)
                       /\ EDensity = args.eDensity
            /\ IsSpectrum =>
                /\ Temperature = args.temperature
                /\ EDensity = args.eDensity

\* C6 witness: bunch given three temperatures and one density has stored
\* three copies of the density
C6_Witness ==
    /\ IsBunch /\ pc = "done"
    /\ size(args.temperature) = 3 /\ size(args.eDensity) = 1
    /\ NTempDen = 3
    /\ EDensity = <<21, 21, 21>>
    /\ Temperature = <<11, 12, 13>>

(* C6 as stated: in spectrum and in bunch the length-1 array is stored     *)
(* broadcast to N equal copies, so both stored arrays have length N.        *)
C6_BothStoredWithGridLength ==
    pc # "new" =>
        /\ (size(args.temperature) = 1 /\ size(args.eDensity) = 1) => NTempDen = 1
        /\ OneIsLong(args) =>
            /\ NTempDen = LongLength(args)
            /\ Len(Temperature) = NTempDen /\ Len(EDensity) = NTempDen
            /\ size(args.eDensity) = 1 => Tiled(EDensity, args.eDensity, NTempDen)
            /\ size(args.temperature) = 1 =>
                   Tiled(Temperature, args.temperature, NTempDen)

---------------------------------------------------------------------------
(* C7 as stated: once a call given em as absent, as a positive scalar or   *)
(* as a sequence is past the emission-measure normalization, the stored Em  *)
(* has exactly NTempDen values: ones, the scalar, or the supplied sequence  *)
(* (which therefore has length NTempDen).                                   *)
C7_EmHasGridLength ==
    (/\ pc \in {"loop", "done"}
     /\ \/ args.em.type = "int" /\ args.em.val = 0
        \/ args.em.type = "float" /\ args.em.val > 0
        \/ args.em.type = "list") =>
        /\ Em.type = "ndarray"
        /\ Len(Em.val) = NTempDen
        /\ (args.em.type = "int") => \A i \in 1..NTempDen : Em.val[i] = 1
        /\ (args.em.type = "float") => \A i \in 1..NTempDen : Em.val[i] = args.em.val
        /\ (args.em.type = "list") => Em.val = args.em.val

---------------------------------------------------------------------------
(* C3 as stated: after a completed spectrum run with a string label,        *)
(* Spectrum has an entry under that label and the entry holds the full      *)
(* result record of the run: the keys of every labelled record, the run's   *)
(* minAbund among them.                                                     *)
C3_LabelledEntryHoldsFullRecord ==
    (pc = "done" /\ IsSpectrum /\ args.label.type = "str") =>
        /\ args.label.val \in DOMAIN Spectrum
        /\ Spectrum[args.label.val].type = "dict"
        /\ Spectrum[args.label.val].val
               = setitem(setitem(recordCommon(Total, integratedOf(NTempDen, Total),
                                              IonsCalculated, AbundanceName, ylabel),
                                 "em", Em),
                         "minAbund", P("float", args.minAbund))

---------------------------------------------------------------------------
(* C5: a call with elementList and ionList both set, or a spectrum call     *)
(* whose abundance is neither None nor a string, ends in its set-up with an *)
(* error: the loop over the candidates is never entered, so no continuum    *)
(* or per-ion model is constructed and nothing is added to a running array, *)
(* and Spectrum and the exposed arrays are what they were before the call.  *)
ConfigurationError(a) ==
    \/ a.variant = "spectrum" /\ a.abundance.type \notin {"NoneType", "str"}
    \/ a.elementList # {} /\ a.ionList # {}

C5_ConfigurationErrorLeavesNoResult ==
    [][(runs' = runs + 1 /\ ConfigurationError(args')) =>
           /\ pc' \in {"returned", "raised"}
           /\ err' # ""
           /\ added' = NoHistory
           /\ Spectrum' = Spectrum
           /\ ("Spectrum" \in attrs') = ("Spectrum" \in attrs)
           /\ UNCHANGED <<FreeFree, FreeBound, LineSpectrum, TwoPhoton, Total,
                          Intensity>>]_vars

\* C5 witness: a spectrum call with a non-string abundance has returned on
\* an instance that already holds the labelled result of an earlier call
C5_Witness ==
    /\ pc = "returned" /\ IsSpectrum
    /\ args.abundance.type = "int"
    /\ runs = 2
    /\ "Spectrum" \in attrs /\ "run1" \in DOMAIN Spectrum
    /\ Spectrum["run1"].type = "dict"

====
